---- MODULE Spec2Model ----
(***************************************************************************)
(* A model of the image classification pipeline of script.py and utils.py: *)
(* the detection cache (CacheManager), the detector (ObjectDetector), the  *)
(* reconciliation of a directory scan against the persisted results        *)
(* (BatchProcessor), the atomic save of the results (FileManager) and the  *)
(* classification pass (DetectionProcessor).                               *)
(*                                                                         *)
(* A file path of the image directory is a number of Paths, the bytes of a *)
(* file a number of Contents.  A detection record is kept as its "Class"   *)
(* field: the code never reads "Bounding Box" or "Confidence".             *)
(***************************************************************************)
EXTENDS Integers, Sequences, FiniteSets, TLC

VARIABLES
    fs,                 \* the image directory: existing path -> content
    disk,               \* the files of the results directory: name -> content
    pc,                 \* where main's detection stage stands
    exit,               \* how the last run of the stage ended
    crashedAt,          \* the pc at which the last run was interrupted
    hash_to_data,       \* BatchProcessor: the mapping being reconciled
    unprocessed_files,  \* BatchProcessor: the files that need detection
    processed,          \* process_unprocessed_files: files of the loop done
    loaded_results,     \* the mapping as load_results returned it
    invoked,            \* the hashes the model was called on in this run
    rerun,              \* this run follows a completed run, directory unchanged
    stable,             \* a run completed and nothing changed since
    after_interrupt,    \* this run follows one interrupted after a cache set
    save_old,           \* the target file when save_results was entered
    save_new,           \* the results save_results was given
    cache_calls,        \* detector: calls of the model per hash
    cache_first,        \* detector: what the first miss of a hash stored
    ret,                \* detector: what the last detect_objects call did
    model_failed,       \* detector: the model has raised in some call
    last_failed,        \* detector: hashes whose last call the model failed
    interrupts,         \* interruptions of the process so far
    input_data,         \* classifier: the mapping given to process_json
    dp,                 \* classifier: the DetectionProcessor's fields
    passes,             \* classifier: process_json calls made on dp
    settled,            \* the non-empty detections completed runs saved, per hash
    cache_last,         \* cache: the data of the last set call, per key
    cache_ret,          \* cache: the last get or set call and what it returned
    processed_json,     \* organizer: the classification records it is given
    operation,          \* organizer: "move" or "copy"
    dest,               \* organizer: the files of the classification folders
    summary,            \* organizer: what process_and_move_or_copy returned
    transferred,        \* organizer: the transfers it made, per label
    mover_calls,        \* organizer: calls of process_and_move_or_copy made
    args,               \* main: the flags of the command line
    stage,              \* main: the stage the program is about to enter
    status,             \* main: the exit status, once the program has ended
    executed,           \* main: the stages that have executed, in order
    start_files,        \* main: the files of the results directory at the start
    detected,           \* what detect_objects returned in this run, per hash
    writers,            \* concurrent writers: where each process is in set
    overlapped          \* concurrent writers: two set calls have overlapped

vars == <<fs, disk, pc, exit, crashedAt, hash_to_data, unprocessed_files,
          processed, loaded_results, invoked, rerun, stable,
          after_interrupt, save_old, save_new, interrupts, cache_calls,
          cache_first, ret, model_failed, last_failed, input_data, dp,
          passes, settled, cache_last, cache_ret, processed_json, operation,
          dest, summary, transferred, mover_calls, args, stage, status,
          executed, start_files, detected, writers, overlapped>>

pipeline_vars == <<pc, exit, crashedAt, hash_to_data, unprocessed_files,
                   processed, loaded_results, invoked, rerun, stable,
                   after_interrupt, save_old, save_new, interrupts, settled,
                   detected>>

detector_vars == <<cache_calls, cache_first, ret, model_failed, last_failed>>

classifier_vars == <<input_data, dp, passes>>

cache_vars == <<cache_last, cache_ret>>

mover_vars == <<processed_json, operation, dest, summary, transferred,
                mover_calls>>

main_vars == <<args, stage, status, executed, start_files>>

writer_vars == <<writers, overlapped>>

----------------------------------------------------------------------------
(* Bounds of the model. *)

MaxPaths == 3

MaxContents == 2

MaxModelDets == 1

MaxInterrupts == 1

MaxCalls == 2

MaxDetections == 3

MaxEntries == 2

MaxPasses == 2

MaxNames == 2

MaxWriters == 2

Paths == 1..MaxPaths

Contents == 1..MaxContents

Labels == {"person", "car", "dog"}

Detections == {[Class |-> l] : l \in Labels}

SeqsUpTo(S, n) == UNION {[1..k -> S] : k \in 0..n}

DetectionLists == SeqsUpTo(Detections, MaxDetections)

(* What the model returns for an image in the detection stage, which reads *)
(* a detection list only for being empty or not (script.py, line 222) and  *)
(* otherwise carries it along: no detection, or detections of one class.   *)
ModelOutputs == SeqsUpTo({[Class |-> "car"]}, MaxModelDets)

Range(s) == {s[k] : k \in DOMAIN s}

(* Every list that holds each element of S once. *)
ListsOf(S) ==
    {s \in [1..Cardinality(S) -> S] : \A a, b \in DOMAIN s : a # b => s[a] # s[b]}

InList(x, s) == \E k \in DOMAIN s : s[k] = x

----------------------------------------------------------------------------
(* Files of the results directory. *)

EmptyDict == <<>>

Missing == [kind |-> "missing", obj |-> EmptyDict]

(* A file opened for writing whose pickle.dump did not complete. *)
Partial == [kind |-> "partial", obj |-> EmptyDict]

Pickle(obj) == [kind |-> "pickle", obj |-> obj]

FileOf(d, name) == IF name \in DOMAIN d THEN d[name] ELSE Missing

WriteFile(d, name, content) ==
    [n \in DOMAIN d \cup {name} |-> IF n = name THEN content ELSE d[n]]

RemoveFile(d, name) == [n \in DOMAIN d \ {name} |-> d[n]]

pkl_file == <<"detections.pkl">>

default_cache_file == <<"detection_cache.pkl">>

(* main hands the results file to the detector as its cache file. *)
main_cache_file == pkl_file

Put(dict, key, value) ==
    [k \in DOMAIN dict \cup {key} |-> IF k = key THEN value ELSE dict[k]]

----------------------------------------------------------------------------
(* FileManager *)

MD5(content) == <<"md5", content>>

generate_cache_key(file_path) == MD5(fs[file_path])

exists(file_path) == file_path \in DOMAIN fs

(* os.walk lists the directory in an order the file system chooses. *)
get_image_files == ListsOf(DOMAIN fs)

(* pickle.load of a missing or truncated file raises; load_results turns  *)
(* every exception into the empty mapping.                                *)
load_results(d, output_path) ==
    IF FileOf(d, output_path).kind = "pickle"
    THEN FileOf(d, output_path).obj
    ELSE EmptyDict

temp_file_mut(output_path) == output_path

temp_file(output_path) == output_path \o <<".tmp">>

(* save_results, step by step: the temporary file is opened (and so       *)
(* truncated), the results are dumped into it, and it is renamed over the  *)
(* target.                                                                 *)
save_open(d, output_path) == WriteFile(d, temp_file(output_path), Partial)

save_dump_mut(d, output_path, results) ==
    WriteFile(d, temp_file(output_path), Pickle(loaded_results))

save_dump(d, output_path, results) ==
    WriteFile(d, temp_file(output_path), Pickle(results))

(* os.rename of a file onto itself changes nothing. *)
save_rename(d, output_path) ==
    IF temp_file(output_path) = output_path
    THEN d
    ELSE RemoveFile(WriteFile(d, output_path, FileOf(d, temp_file(output_path))),
                    temp_file(output_path))

Hashes == {MD5(c) : c \in Contents}

----------------------------------------------------------------------------
(* CacheManager *)

(* _load_cache has no exception handler: a truncated file raises. *)
load_cache(d, cache_file) ==
    LET f == FileOf(d, cache_file)
    IN  IF f.kind = "missing" THEN [raised |-> "", cache |-> EmptyDict]
        ELSE IF f.kind = "pickle" THEN [raised |-> "", cache |-> f.obj]
        ELSE [raised |-> "UnpicklingError", cache |-> EmptyDict]

NoValue == [absent |-> TRUE]

cache_get(d, cache_file, key) ==
    LET l == load_cache(d, cache_file)
    IN  IF l.raised # "" THEN [raised |-> l.raised, found |-> FALSE, value |-> NoValue]
        ELSE IF key \in DOMAIN l.cache
        THEN [raised |-> "", found |-> TRUE, value |-> l.cache[key]]
        ELSE [raised |-> "", found |-> FALSE, value |-> NoValue]

cache_set_mut(d, cache_file, key, data) ==
    LET l == load_cache(d, cache_file)
    IN  IF l.raised # "" THEN [raised |-> l.raised, disk |-> d]
        ELSE [raised |-> "",
              disk |-> WriteFile(d, cache_file,
                                 Pickle(Put(EmptyDict, key, [data |-> data])))]

cache_set(d, cache_file, key, data) ==
    LET l == load_cache(d, cache_file)
    IN  IF l.raised # "" THEN [raised |-> l.raised, disk |-> d]
        ELSE [raised |-> "",
              disk |-> WriteFile(d, cache_file,
                                 Pickle(Put(l.cache, key, [data |-> data])))]

----------------------------------------------------------------------------
(* ObjectDetector *)

(* What a call of the model does: it raises, or returns a list. *)
ModelResults ==
    {[raises |-> TRUE, out |-> <<>>]} \cup
    {[raises |-> FALSE, out |-> o] : o \in ModelOutputs}

(* "if cached_result:" is the truth value of the stored dict, which holds *)
(* the key 'data' and so is never empty.                                   *)
cached_truthy_mut(got) == got.found /\ "data" \in DOMAIN got.value /\ got.value.data # <<>>

cached_truthy(got) == got.found /\ DOMAIN got.value # {}

on_model_error_mut(d, cache_file, cache_key) ==
    cache_set(d, cache_file, cache_key, <<>>).disk

(* The model call is outside any try: the cache is as it was. *)
on_model_error(d, cache_file, cache_key) == d

detect_objects(d, cache_file, image_path, model) ==
    LET cache_key == generate_cache_key(image_path)
        got == cache_get(d, cache_file, cache_key)
        none == [raised |-> "", disk |-> d, hash |-> cache_key,
                 detections |-> <<>>, hit |-> FALSE, invoked |-> FALSE]
    IN  IF got.raised # "" THEN [none EXCEPT !.raised = got.raised]
        ELSE IF cached_truthy(got)
        THEN IF "data" \in DOMAIN got.value
             THEN [none EXCEPT !.detections = got.value.data, !.hit = TRUE]
             ELSE [none EXCEPT !.raised = "KeyError"]
        ELSE IF model.raises
        THEN [none EXCEPT !.raised = "ModelError", !.invoked = TRUE,
                          !.disk = on_model_error(d, cache_file, cache_key)]
        ELSE LET s == cache_set(d, cache_file, cache_key, model.out)
             IN  [none EXCEPT !.raised = s.raised, !.disk = s.disk,
                              !.detections = model.out, !.invoked = TRUE]

----------------------------------------------------------------------------
(* BatchProcessor.get_unprocessed_files *)

(* hash_to_data[file_hash]["files"] raises KeyError on an entry that has  *)
(* no such key.                                                            *)
has_files(entry) == "files" \in DOMAIN entry

any_exists(existing_files) ==
    \E k \in DOMAIN existing_files : exists(existing_files[k])

set_files_mut(h2d, file_hash, files) ==
    [h2d EXCEPT ![file_hash] = [files |-> files, detections |-> <<>>]]

set_files(h2d, file_hash, files) ==
    [h2d EXCEPT ![file_hash] = [@ EXCEPT !.files = files]]

(* The known hash none of whose recorded files exist: the list is replaced. *)
replace_files_mut(h2d, file_hash, file) ==
    set_files(h2d, file_hash, Append(h2d[file_hash].files, file))

replace_files(h2d, file_hash, file) == set_files(h2d, file_hash, <<file>>)

(* The known hash with a recorded file that exists: the file is appended. *)
append_file_mut(h2d, file_hash, file) ==
    set_files(h2d, file_hash, <<file>>)

append_file(h2d, file_hash, file) ==
    set_files(h2d, file_hash, Append(h2d[file_hash].files, file))

(* The unseen hash: a new entry, and the file needs detection. *)
new_entry_mut(st, file_hash, file) ==
    [st EXCEPT !.hash_to_data = Put(@, file_hash,
                                    [files |-> <<file>>, detections |-> <<>>])]

new_entry(st, file_hash, file) ==
    [st EXCEPT !.hash_to_data = Put(@, file_hash,
                                    [files |-> <<file>>, detections |-> <<>>]),
               !.unprocessed_files = Append(@, file)]

(* "if file_hash in hash_to_data" *)
is_known(h2d, file_hash) == file_hash \in DOMAIN h2d

(* One round of the loop over all_files. *)
reconcile_file(st, file) ==
    LET file_hash == generate_cache_key(file)
        h2d == st.hash_to_data
    IN  IF is_known(h2d, file_hash)
        THEN IF ~has_files(h2d[file_hash])
             THEN [st EXCEPT !.raised = "KeyError"]
             ELSE LET existing_files == h2d[file_hash].files
                  IN  IF ~any_exists(existing_files)
                      THEN IF exists(file) /\ ~InList(file, existing_files)
                           THEN [st EXCEPT !.hash_to_data =
                                     replace_files(h2d, file_hash, file)]
                           ELSE st
                      ELSE IF exists(file) /\ ~InList(file, existing_files)
                           THEN [st EXCEPT !.hash_to_data =
                                     append_file(h2d, file_hash, file)]
                           ELSE st
        ELSE IF exists(file)
             THEN new_entry(st, file_hash, file)
             ELSE st

RECURSIVE reconcile_loop(_, _, _)
reconcile_loop(files, st, k) ==
    IF k > Len(files) \/ st.raised # ""
    THEN st
    ELSE reconcile_loop(files, reconcile_file(st, files[k]), k + 1)

(* list(set(files)): each path once, in the order in which the set        *)
(* iterates.  The code reads a files list for membership, for any() and   *)
(* for its length, never for its order: the model takes the ascending one. *)
RECURSIVE ascending(_, _)
ascending(S, from) ==
    IF from > MaxPaths THEN <<>>
    ELSE IF from \in S THEN <<from>> \o ascending(S, from + 1)
    ELSE ascending(S, from + 1)

list_of_set(files) == ascending(Range(files), 1)

(* The closing loop over hash_to_data.items(). *)
dedup_raises(h2d) == \E h \in DOMAIN h2d : ~has_files(h2d[h])

dedup_mut(h2d) ==
    [h \in {g \in DOMAIN h2d : any_exists(h2d[g].files)} |->
        [h2d[h] EXCEPT !.files = list_of_set(@)]]

dedup(h2d) ==
    [h \in DOMAIN h2d |-> [h2d[h] EXCEPT !.files = list_of_set(@)]]

(* What get_unprocessed_files returns on the scan files, or raises. *)
get_unprocessed_files(files, loaded) ==
    LET st == reconcile_loop(files,
                             [hash_to_data |-> loaded,
                              unprocessed_files |-> <<>>, raised |-> ""], 1)
    IN  IF st.raised # "" THEN st
        ELSE IF dedup_raises(st.hash_to_data)
        THEN [st EXCEPT !.raised = "KeyError"]
        ELSE [st EXCEPT !.hash_to_data = dedup(st.hash_to_data)]

----------------------------------------------------------------------------
(* The detection stage of main: get_unprocessed_files, then                *)
(* process_unprocessed_files (a loop of detect_objects, then save_results), *)
(* then display_results.                                                   *)

NoLocals ==
    /\ hash_to_data' = EmptyDict
    /\ unprocessed_files' = <<>>
    /\ processed' = 0
    /\ loaded_results' = EmptyDict

(* The run ends on an exception nothing catches. *)
Raise(error) ==
    /\ pc' = "idle"
    /\ exit' = error
    /\ crashedAt' = ""
    /\ NoLocals
    /\ save_old' = Missing
    /\ save_new' = EmptyDict

(* The last run was interrupted after a cache set and before the save. *)
InterruptedAfterSet ==
    /\ exit = "interrupted"
    /\ crashedAt \in {"reconciled", "cache_write"}
    /\ invoked # <<>>

GetUnprocessedFiles ==
    /\ pc = "idle"
    /\ rerun' = stable
    /\ stable' = FALSE
    /\ after_interrupt' = InterruptedAfterSet
    /\ invoked' = <<>>
    /\ detected' = EmptyDict
    /\ \E files \in get_image_files :
         LET st == get_unprocessed_files(files, load_results(disk, pkl_file))
         IN IF st.raised # ""
            THEN Raise(st.raised)
            ELSE /\ pc' = "reconciled"
                 /\ exit' = ""
                 /\ crashedAt' = ""
                 /\ loaded_results' = load_results(disk, pkl_file)
                 /\ hash_to_data' = st.hash_to_data
                 /\ unprocessed_files' = st.unprocessed_files
                 /\ processed' = 0
                 /\ save_old' = Missing
                 /\ save_new' = EmptyDict
    /\ UNCHANGED <<fs, disk, interrupts, detector_vars, classifier_vars,
                   cache_vars, mover_vars, main_vars, settled,
                   writer_vars>>

(* "Only update detections for the first occurrence of this hash", then   *)
(* the file is added to the entry's files if it is not there.              *)
update_entry_mut(h2d, file_path, result) ==
    LET e == h2d[result.hash]
        f == IF InList(file_path, e.files) THEN e.files ELSE Append(e.files, file_path)
    IN  [h2d EXCEPT ![result.hash] = [files |-> f, detections |-> e.detections]]

update_entry(h2d, file_path, result) ==
    LET e == h2d[result.hash]
        d == IF e.detections = <<>> THEN result.detections ELSE e.detections
        f == IF InList(file_path, e.files) THEN e.files ELSE Append(e.files, file_path)
    IN  [h2d EXCEPT ![result.hash] = [files |-> f, detections |-> d]]

(* One round of the loop of process_unprocessed_files. *)
ProcessFile ==
    /\ pc = "reconciled"
    /\ processed < Len(unprocessed_files)
    /\ \E model \in ModelResults :
         LET file_path == unprocessed_files[processed + 1]
             result == detect_objects(disk, main_cache_file, file_path, model)
         IN  IF ~exists(file_path)
             THEN /\ processed' = processed + 1
                  /\ UNCHANGED <<disk, pc, exit, crashedAt, hash_to_data,
                                 unprocessed_files, loaded_results,
                                 invoked, detected, save_old, save_new>>
             ELSE /\ disk' = result.disk
                  /\ invoked' = IF result.invoked THEN Append(invoked, result.hash) ELSE invoked
                  /\ detected' = IF result.raised = ""
                                 THEN Put(detected, result.hash, result.detections)
                                 ELSE detected
                  /\ IF result.raised # ""
                     THEN Raise(result.raised)
                     ELSE /\ hash_to_data' = update_entry(hash_to_data, file_path, result)
                          /\ processed' = processed + 1
                          /\ UNCHANGED <<pc, exit, crashedAt, unprocessed_files,
                                         loaded_results, save_old, save_new>>
    /\ UNCHANGED <<fs, rerun, stable, after_interrupt, interrupts, detector_vars,
                   classifier_vars,
                   cache_vars, mover_vars, main_vars, settled,
                   writer_vars>>

(* save_results: temp_file is opened for writing. *)
SaveOpen ==
    /\ pc = "reconciled"
    /\ processed = Len(unprocessed_files)
    /\ pc' = "save_dump"
    /\ save_old' = FileOf(disk, pkl_file)
    /\ save_new' = hash_to_data
    /\ disk' = save_open(disk, pkl_file)
    /\ UNCHANGED <<fs, exit, crashedAt, hash_to_data, unprocessed_files,
                   processed, loaded_results, invoked, rerun, stable,
                   after_interrupt, interrupts, detector_vars, classifier_vars,
                   cache_vars, mover_vars, main_vars, settled, detected,
                   writer_vars>>

(* save_results: pickle.dump completes. *)
SaveDump ==
    /\ pc = "save_dump"
    /\ pc' = "save_rename"
    /\ disk' = save_dump(disk, pkl_file, hash_to_data)
    /\ UNCHANGED <<fs, exit, crashedAt, hash_to_data, unprocessed_files,
                   processed, loaded_results, invoked, rerun, stable,
                   after_interrupt, save_old, save_new, interrupts,
                   detector_vars, classifier_vars,
                   cache_vars, mover_vars, main_vars, settled, detected,
                   writer_vars>>

(* save_results: os.rename(temp_file, output_path). *)
SaveRename ==
    /\ pc = "save_rename"
    /\ pc' = "done"
    /\ disk' = save_rename(disk, pkl_file)
    /\ UNCHANGED <<fs, exit, crashedAt, hash_to_data, unprocessed_files,
                   processed, loaded_results, invoked, rerun, stable,
                   after_interrupt, save_old, save_new, interrupts,
                   detector_vars, classifier_vars,
                   cache_vars, mover_vars, main_vars, settled, detected,
                   writer_vars>>

(* The detections of the hashes that have some, as first saved. *)
settle(known, h2d) ==
    [h \in DOMAIN known \cup {g \in DOMAIN h2d : h2d[g].detections # <<>>} |->
        IF h \in DOMAIN known THEN known[h] ELSE h2d[h].detections]

(* display_results, and the stage returns. *)
Finish ==
    /\ pc = "done"
    /\ pc' = "idle"
    /\ exit' = "ok"
    /\ stable' = TRUE
    /\ crashedAt' = ""
    /\ invoked' = <<>>
    /\ detected' = EmptyDict
    /\ rerun' = FALSE
    /\ after_interrupt' = FALSE
    /\ settled' = settle(settled, hash_to_data)
    /\ NoLocals
    /\ save_old' = Missing
    /\ save_new' = EmptyDict
    /\ UNCHANGED <<fs, disk, interrupts, detector_vars, classifier_vars,
                   cache_vars, mover_vars, main_vars,
                   writer_vars>>

(* The process is killed between two steps: what it holds in memory is    *)
(* lost, the files stay as they are.                                       *)
Interrupt ==
    /\ pc \in {"reconciled", "save_dump", "save_rename", "done"}
    /\ interrupts < MaxInterrupts
    /\ interrupts' = interrupts + 1
    /\ pc' = "idle"
    /\ exit' = "interrupted"
    /\ crashedAt' = pc
    /\ NoLocals
    /\ UNCHANGED <<fs, disk, invoked, rerun, stable, after_interrupt,
                   save_old, save_new, detector_vars, classifier_vars,
                   cache_vars, mover_vars, main_vars, settled, detected,
                   writer_vars>>

(* The process is killed inside _save_cache, between open(cache_file,     *)
(* 'wb') and the end of pickle.dump, in a detect_objects call that missed. *)
InterruptCacheWrite ==
    /\ pc = "reconciled"
    /\ processed < Len(unprocessed_files)
    /\ interrupts < MaxInterrupts
    /\ LET file_path == unprocessed_files[processed + 1]
           result == detect_objects(disk, main_cache_file, file_path,
                                    [raises |-> FALSE, out |-> <<>>])
       IN  /\ exists(file_path)
           /\ result.invoked
           /\ result.raised = ""
    /\ interrupts' = interrupts + 1
    /\ disk' = WriteFile(disk, main_cache_file, Partial)
    /\ pc' = "idle"
    /\ exit' = "interrupted"
    /\ crashedAt' = "cache_write"
    /\ NoLocals
    /\ UNCHANGED <<fs, invoked, rerun, stable, after_interrupt, save_old,
                   save_new, detector_vars, classifier_vars,
                   cache_vars, mover_vars, main_vars, settled, detected,
                   writer_vars>>

(* Between two runs the user writes, copies, moves or deletes images; what *)
(* is remembered of the last run is dropped then.                          *)
BetweenRuns ==
    /\ pc = "idle"
    /\ exit' = ""
    /\ crashedAt' = ""
    /\ invoked' = <<>>
    /\ detected' = EmptyDict
    /\ rerun' = FALSE
    /\ stable' = FALSE
    /\ after_interrupt' = FALSE
    /\ save_old' = Missing
    /\ save_new' = EmptyDict
    /\ UNCHANGED <<disk, pc, hash_to_data, unprocessed_files, processed,
                   loaded_results, interrupts, detector_vars, classifier_vars,
                   cache_vars, mover_vars, main_vars, settled,
                   writer_vars>>

WriteImage ==
    /\ BetweenRuns
    /\ \E p \in Paths, c \in Contents :
         /\ ~(p \in DOMAIN fs /\ fs[p] = c)
         /\ fs' = [q \in DOMAIN fs \cup {p} |-> IF q = p THEN c ELSE fs[q]]

DeleteImage ==
    /\ BetweenRuns
    /\ \E p \in DOMAIN fs : fs' = [q \in DOMAIN fs \ {p} |-> fs[q]]

NoRet ==
    [path |-> 0, hash |-> MD5(0), detections |-> <<>>, hit |-> FALSE,
     invoked |-> FALSE, raised |-> "", cache_changed |-> FALSE,
     after_failure |-> FALSE]

FreshProcessor ==
    [results |-> <<>>, all_files |-> {}, file_to_hash |-> EmptyDict,
     duplicates |-> {}, unique_classifications |-> {}]

InitPipeline ==
    /\ pc = "idle"
    /\ exit = ""
    /\ crashedAt = ""
    /\ hash_to_data = EmptyDict
    /\ unprocessed_files = <<>>
    /\ processed = 0
    /\ loaded_results = EmptyDict
    /\ invoked = <<>>
    /\ rerun = FALSE
    /\ stable = FALSE
    /\ after_interrupt = FALSE
    /\ save_old = Missing
    /\ save_new = EmptyDict
    /\ interrupts = 0
    /\ settled = EmptyDict
    /\ detected = EmptyDict

InitDetector ==
    /\ cache_calls = EmptyDict
    /\ cache_first = EmptyDict
    /\ ret = NoRet
    /\ model_failed = FALSE
    /\ last_failed = {}

InitClassifier ==
    /\ input_data = <<>>
    /\ dp = FreshProcessor
    /\ passes = 0

NoCall == [op |-> "", key |-> MD5(0), value |-> NoValue]

InitCache ==
    /\ cache_last = EmptyDict
    /\ cache_ret = NoCall

InitMover ==
    /\ processed_json = <<>>
    /\ operation = "move"
    /\ dest = EmptyDict
    /\ summary = EmptyDict
    /\ transferred = EmptyDict
    /\ mover_calls = 0

InitWriters ==
    /\ writers = <<>>
    /\ overlapped = FALSE

InitMain ==
    /\ args = {}
    /\ stage = ""
    /\ status = -1
    /\ executed = <<>>
    /\ start_files = {}

(* The program is started on an empty image directory and an empty results *)
(* directory.                                                              *)
Init ==
    /\ fs = EmptyDict
    /\ disk = EmptyDict
    /\ InitPipeline
    /\ InitDetector
    /\ InitClassifier
    /\ InitCache
    /\ InitWriters
    /\ InitMover
    /\ InitMain

Next ==
    \/ GetUnprocessedFiles
    \/ ProcessFile
    \/ SaveOpen
    \/ SaveDump
    \/ SaveRename
    \/ Finish
    \/ Interrupt
    \/ InterruptCacheWrite
    \/ WriteImage
    \/ DeleteImage

Spec == Init /\ [][Next]_vars

----------------------------------------------------------------------------
(* The detector on its own: detect_objects calls of one ObjectDetector,   *)
(* which keeps its cache in its default cache file, on the images of the  *)
(* directory, while the user writes and deletes images between the calls. *)

Count(calls, h) == IF h \in DOMAIN calls THEN calls[h] ELSE 0

DetectObjects ==
    /\ pc = "idle"
    /\ \E image_path \in DOMAIN fs : \E model \in ModelResults :
         LET result == detect_objects(disk, default_cache_file, image_path, model)
             h == result.hash
         IN  /\ result.invoked => Count(cache_calls, h) < MaxCalls
             /\ disk' = result.disk
             /\ ret' = [path |-> image_path, hash |-> h,
                        detections |-> result.detections, hit |-> result.hit,
                        invoked |-> result.invoked, raised |-> result.raised,
                        cache_changed |-> result.disk # disk,
                        after_failure |-> h \in last_failed]
             /\ cache_calls' = IF result.invoked
                               THEN Put(cache_calls, h, Count(cache_calls, h) + 1)
                               ELSE cache_calls
             /\ cache_first' = IF result.invoked /\ result.raised = ""
                                  /\ h \notin DOMAIN cache_first
                               THEN Put(cache_first, h,
                                        [path |-> image_path,
                                         detections |-> result.detections])
                               ELSE cache_first
             /\ model_failed' = (model_failed \/ result.raised = "ModelError")
             /\ last_failed' = IF result.raised = "ModelError"
                               THEN last_failed \cup {h}
                               ELSE last_failed \ {h}
    /\ UNCHANGED <<fs, pipeline_vars, classifier_vars,
                   cache_vars, mover_vars, main_vars,
                   writer_vars>>

NextDetect ==
    \/ DetectObjects
    \/ WriteImage
    \/ DeleteImage

SpecDetect == Init /\ [][NextDetect]_vars

----------------------------------------------------------------------------
(* The cache on its own: get and set calls of one process on one          *)
(* CacheManager, whose cache file does not exist at the start.             *)

CacheSet ==
    /\ \E key \in Hashes, data \in DetectionLists :
         LET r == cache_set(disk, default_cache_file, key, data)
             before == cache_get(disk, default_cache_file, key)
         IN  /\ r.raised = ""
             /\ disk' = r.disk
             /\ cache_last' = Put(cache_last, key,
                                  [data |-> data,
                                   overwrote |-> before.found
                                                 /\ before.value # [data |-> data]])
             /\ cache_ret' = [op |-> "set", key |-> key, value |-> NoValue]
    /\ UNCHANGED <<fs, pipeline_vars, detector_vars, classifier_vars,
                   mover_vars, main_vars,
                   writer_vars>>

CacheGet ==
    /\ \E key \in Hashes :
         LET g == cache_get(disk, default_cache_file, key)
         IN  /\ g.raised = ""
             /\ cache_ret' = [op |-> "get", key |-> key, value |-> g.value]
    /\ UNCHANGED <<fs, disk, pipeline_vars, detector_vars, classifier_vars,
                   cache_last, mover_vars, main_vars,
                   writer_vars>>

NextCache ==
    \/ CacheSet
    \/ CacheGet

SpecCache == Init /\ [][NextCache]_vars

----------------------------------------------------------------------------
(* Several processes, each with a CacheManager on the same cache file,    *)
(* call set again and again, each for a key of its own.  A set call is    *)
(* three steps: _load_cache and the assignment to the loaded dict, the    *)
(* open of the file for writing, which truncates it, and the end of       *)
(* pickle.dump.  Nothing orders the steps of different processes.          *)

Writers == 1..MaxWriters

WriterKey(p) == MD5(p)

NoSet == [pc |-> "idle", data |-> <<>>, cache |-> EmptyDict]

MidSet(p) == writers[p].pc \in {"loaded", "opened"}

set_assign_mut(cache, key, data) == Put(EmptyDict, key, [data |-> data])

(* "cache[key] = {'data': data}" *)
set_assign(cache, key, data) == Put(cache, key, [data |-> data])

(* set: cache = self._load_cache(); cache[key] = {'data': data}.  A file  *)
(* that another process has truncated raises in pickle.load.               *)
SetLoad ==
    /\ \E p \in Writers, data \in ModelOutputs :
         LET l == load_cache(disk, default_cache_file)
         IN  /\ writers[p].pc = "idle"
             /\ writers' =
                  [writers EXCEPT ![p] =
                      IF l.raised # ""
                      THEN [pc |-> "raised", data |-> data, cache |-> EmptyDict]
                      ELSE [pc |-> "loaded", data |-> data,
                            cache |-> set_assign(l.cache, WriterKey(p), data)]]
             /\ overlapped' = (overlapped \/ \E q \in Writers \ {p} : MidSet(q))
    /\ UNCHANGED <<fs, disk, pipeline_vars, detector_vars, classifier_vars,
                   cache_vars, mover_vars, main_vars>>

(* _save_cache: open(self.cache_file, 'wb') *)
SetOpen ==
    /\ \E p \in Writers :
         /\ writers[p].pc = "loaded"
         /\ writers' = [writers EXCEPT ![p].pc = "opened"]
         /\ disk' = WriteFile(disk, default_cache_file, Partial)
    /\ UNCHANGED <<fs, pipeline_vars, detector_vars, classifier_vars,
                   cache_vars, mover_vars, main_vars, overlapped>>

(* _save_cache: pickle.dump(cache, f) has written the dict, set returns. *)
SetDump ==
    /\ \E p \in Writers :
         /\ writers[p].pc = "opened"
         /\ writers' = [writers EXCEPT ![p] = NoSet]
         /\ disk' = WriteFile(disk, default_cache_file, Pickle(writers[p].cache))
         /\ cache_last' = Put(cache_last, WriterKey(p),
                              [data |-> writers[p].data,
                               overwrote |-> WriterKey(p) \in DOMAIN cache_last])
    /\ UNCHANGED <<fs, pipeline_vars, detector_vars, classifier_vars,
                   cache_ret, mover_vars, main_vars, overlapped>>

InitConcurrent ==
    /\ fs = EmptyDict
    /\ disk = EmptyDict
    /\ InitPipeline
    /\ InitDetector
    /\ InitClassifier
    /\ InitCache
    /\ InitMover
    /\ InitMain
    /\ writers = [p \in Writers |-> NoSet]
    /\ overlapped = FALSE

NextConcurrent ==
    \/ SetLoad
    \/ SetOpen
    \/ SetDump

SpecConcurrent == InitConcurrent /\ [][NextConcurrent]_vars

----------------------------------------------------------------------------
(* DetectionProcessor.process_json.  Its input is the mapping of the      *)
(* detections file in the order of the file: a list of entries, each the  *)
(* hash and the value stored under it.                                     *)

person_found(detections) ==
    \E k \in DOMAIN detections : detections[k].Class = "person"

(* class_counts: how often each class occurs in the detections. *)
class_counts(detections) ==
    [cls \in {detections[k].Class : k \in DOMAIN detections} |->
        Cardinality({k \in DOMAIN detections : detections[k].Class = cls})]

max_count_mut(counts) ==
    CHOOSE m \in Range(counts) : \A c \in DOMAIN counts : counts[c] >= m

max_count(counts) ==
    CHOOSE m \in Range(counts) : \A c \in DOMAIN counts : counts[c] <= m

most_common_classes(counts) ==
    {cls \in DOMAIN counts : counts[cls] = max_count(counts)}

priority_class_mut(detections) == FALSE

(* "if person_found: classification = 'person'" *)
priority_class(detections) == person_found(detections)

(* The classifications the rule can give: random.choice picks any one of  *)
(* the most common classes.                                                *)
classifications(detections) ==
    IF priority_class(detections) THEN {"person"}
    ELSE IF DOMAIN class_counts(detections) # {}
    THEN most_common_classes(class_counts(detections))
    ELSE {"others"}

(* list(class_counts.keys()): the classes in the order of their first     *)
(* occurrence.                                                             *)
RECURSIVE class_keys(_, _)
class_keys(detections, k) ==
    IF k > Len(detections) THEN <<>>
    ELSE IF \E j \in 1..(k - 1) : detections[j].Class = detections[k].Class
    THEN class_keys(detections, k + 1)
    ELSE <<detections[k].Class>> \o class_keys(detections, k + 1)

RECURSIVE track_files_mut(_, _, _, _)
track_files_mut(d, file_hash, files, k) ==
    IF k > Len(files) THEN d
    ELSE LET file == files[k]
             dups == IF file \in DOMAIN d.file_to_hash
                     THEN d.duplicates \cup {file_hash}
                     ELSE d.duplicates
         IN  track_files_mut([d EXCEPT !.duplicates = dups,
                                       !.file_to_hash = Put(@, file, file_hash)],
                             file_hash, files, k + 1)

(* The loop over the files of one entry: a file seen under a hash before  *)
(* flags that hash and this one, and is then filed under this one.         *)
RECURSIVE track_files(_, _, _, _)
track_files(d, file_hash, files, k) ==
    IF k > Len(files) THEN d
    ELSE LET file == files[k]
             dups == IF file \in DOMAIN d.file_to_hash
                     THEN d.duplicates \cup {d.file_to_hash[file], file_hash}
                     ELSE d.duplicates
         IN  track_files([d EXCEPT !.duplicates = dups,
                                   !.file_to_hash = Put(@, file, file_hash)],
                         file_hash, files, k + 1)

(* One round of the loop over input_data.items(), with the class that     *)
(* random.choice draws.                                                    *)
process_entry(d, entry, classification) ==
    LET t == track_files(d, entry.hash, entry.files, 1)
    IN  [t EXCEPT !.all_files = @ \cup Range(entry.files),
                  !.unique_classifications = @ \cup {classification},
                  !.results = Append(@, [hash |-> entry.hash,
                                         files |-> entry.files,
                                         class |-> class_keys(entry.detections, 1),
                                         classification |-> classification])]

RECURSIVE process_loop(_, _, _, _)
process_loop(d, input, picks, k) ==
    IF k > Len(input) THEN d
    ELSE process_loop(process_entry(d, input[k], picks[k]), input, picks, k + 1)

(* What process_json returns: the results and the metadata, read from the *)
(* processor's fields.                                                     *)
returned(d) ==
    [results |-> d.results,
     metadata |-> [all_files |-> d.all_files, duplicates |-> d.duplicates,
                   folder_names |-> d.unique_classifications]]

ProcessJson ==
    /\ passes < MaxPasses
    /\ passes' = passes + 1
    /\ \E picks \in [1..Len(input_data) -> Labels \cup {"others"}] :
         /\ \A k \in 1..Len(input_data) :
              picks[k] \in classifications(input_data[k].detections)
         /\ dp' = process_loop(dp, input_data, picks, 1)
    /\ UNCHANGED <<fs, disk, pipeline_vars, detector_vars, input_data,
                   cache_vars, mover_vars, main_vars,
                   writer_vars>>

FileLists == {ascending(S, 1) : S \in SUBSET Paths \ {{}}}

Entries ==
    [hash : Hashes, files : FileLists, detections : DetectionLists]

(* The mappings a detections file can hold: no hash twice. *)
InputData ==
    {input \in SeqsUpTo(Entries, MaxEntries) :
        \A a, b \in DOMAIN input : a # b => input[a].hash # input[b].hash}

(* A fresh DetectionProcessor and a detections file. *)
InitClassify ==
    /\ fs = EmptyDict
    /\ disk = EmptyDict
    /\ InitPipeline
    /\ InitDetector
    /\ input_data \in InputData
    /\ dp = FreshProcessor
    /\ passes = 0
    /\ InitCache
    /\ InitWriters
    /\ InitMover
    /\ InitMain

NextClassify == ProcessJson

SpecClassify == InitClassify /\ [][NextClassify]_vars

----------------------------------------------------------------------------
(* FileMover.  A file of a classification folder is named by the folder   *)
(* and the base name of the file that was moved or copied there; paths of *)
(* different directories can share a base name.                            *)

basename(file) == ((file - 1) % MaxNames) + 1

target_path(target_folder, file) == <<target_folder, basename(file)>>

isfile(d, file) == file \in DOMAIN d

(* shutil.move: the file is renamed to the target path, over a file that  *)
(* is there.                                                               *)
RECURSIVE move_files(_, _, _, _)
move_files(m, file_list, target_folder, k) ==
    IF k > Len(file_list) THEN m
    ELSE LET file == file_list[k]
         IN  IF isfile(m.fs, file)
             THEN move_files(
                      [fs |-> [q \in DOMAIN m.fs \ {file} |-> m.fs[q]],
                       dest |-> Put(m.dest, target_path(target_folder, file), m.fs[file]),
                       files |-> Append(m.files, target_path(target_folder, file))],
                      file_list, target_folder, k + 1)
             ELSE move_files(m, file_list, target_folder, k + 1)

(* shutil.copy2: the file is copied to the target path, over a file that  *)
(* is there.                                                               *)
RECURSIVE copy_files(_, _, _, _)
copy_files(m, file_list, target_folder, k) ==
    IF k > Len(file_list) THEN m
    ELSE LET file == file_list[k]
         IN  IF isfile(m.fs, file)
             THEN copy_files(
                      [fs |-> m.fs,
                       dest |-> Put(m.dest, target_path(target_folder, file), m.fs[file]),
                       files |-> Append(m.files, target_path(target_folder, file))],
                      file_list, target_folder, k + 1)
             ELSE copy_files(m, file_list, target_folder, k + 1)

(* One round of the loop over the records: the files of the record are    *)
(* transferred and results[classification] is assigned.                    *)
organize_item(o, item, op) ==
    LET classification == item.classification
        start == [fs |-> o.fs, dest |-> o.dest, files |-> <<>>]
        m == IF op = "move"
             THEN move_files(start, item.files, classification, 1)
             ELSE copy_files(start, item.files, classification, 1)
        before == IF classification \in DOMAIN o.transferred
                  THEN o.transferred[classification] ELSE <<>>
    IN  [fs |-> m.fs,
         dest |-> m.dest,
         results |-> Put(o.results, classification,
                         [operation |-> IF op = "move" THEN "moved" ELSE "copied",
                          files |-> m.files]),
         transferred |-> Put(o.transferred, classification, before \o m.files)]

RECURSIVE organize_loop(_, _, _, _)
organize_loop(o, items, op, k) ==
    IF k > Len(items) THEN o
    ELSE organize_loop(organize_item(o, items[k], op), items, op, k + 1)

(* What the call returns (results) and does to the files; transferred    *)
(* keeps, per label, every target path it moved or copied a file to.       *)
process_and_move_or_copy(items, d, folders, op) ==
    organize_loop([fs |-> d, dest |-> folders, results |-> EmptyDict,
                   transferred |-> EmptyDict], items, op, 1)

MoveOrCopy ==
    /\ mover_calls = 0
    /\ mover_calls' = 1
    /\ LET o == process_and_move_or_copy(processed_json, fs, dest, operation)
       IN  /\ fs' = o.fs
           /\ dest' = o.dest
           /\ summary' = o.results
           /\ transferred' = o.transferred
    /\ UNCHANGED <<disk, pipeline_vars, detector_vars, classifier_vars,
                   cache_vars, processed_json, operation, main_vars,
                   writer_vars>>

(* The records a classification pass can write: one per hash. *)
Records ==
    {[hash |-> h, files |-> f, class |-> class_keys(d, 1), classification |-> c] :
        h \in Hashes, f \in FileLists, d \in SeqsUpTo(Detections, MaxModelDets),
        c \in Labels \cup {"others"}} \cap
    UNION {[hash : Hashes, files : FileLists, class : {class_keys(d, 1)},
            classification : classifications(d)] :
               d \in SeqsUpTo(Detections, MaxModelDets)}

ProcessedJson ==
    {items \in SeqsUpTo(Records, MaxEntries) :
        \A a, b \in DOMAIN items : a # b => items[a].hash # items[b].hash}

Directories == UNION {[S -> Contents] : S \in SUBSET Paths}

(* An image directory, the records of a classification pass and empty     *)
(* classification folders.                                                 *)
InitOrganize ==
    /\ fs \in Directories
    /\ disk = EmptyDict
    /\ InitPipeline
    /\ InitDetector
    /\ InitClassifier
    /\ InitCache
    /\ InitWriters
    /\ InitMain
    /\ processed_json \in ProcessedJson
    /\ operation \in {"move", "copy"}
    /\ dest = EmptyDict
    /\ summary = EmptyDict
    /\ transferred = EmptyDict
    /\ mover_calls = 0

NextOrganize == MoveOrCopy

SpecOrganize == InitOrganize /\ [][NextOrganize]_vars

----------------------------------------------------------------------------
(* main: the flags are parsed, the dependency checks are made, and the    *)
(* stages that the flags ask for execute one after the other.  Every      *)
(* stage is one step here: nothing else runs while the program does.       *)

Flags ==
    {"process_images", "pkltojson", "process_json", "move_files",
     "zip_process", "delete_files", "all"}

json_file == <<"detections.json">>

processed_json_file == <<"processed.json">>

zip_file == <<"data.zip">>

(* json.dump writes the mapping, its lists and its strings as they are. *)
Json(obj) == [kind |-> "json", obj |-> obj]

Zip(obj) == [kind |-> "zip", obj |-> obj]

(* "If --all is set, enable all individual flags" *)
enable_all(a) == IF "all" \in a THEN Flags ELSE a

(* The dependency checks that main makes before any stage. *)
missing_json_mut(a, d) == FALSE

missing_json(a, d) == "process_json" \in a /\ json_file \notin DOMAIN d

missing_processed_json(a, d) ==
    "move_files" \in a /\ processed_json_file \notin DOMAIN d

(* The check that the convert stage makes when it is reached. *)
missing_pkl(d) == pkl_file \notin DOMAIN d

Exit(code) ==
    /\ stage' = "exit"
    /\ status' = code

(* The stage executes; input tells whether the file it reads was there. *)
Ran(name, input) == executed' = Append(executed, [stage |-> name, input |-> input])

ParseArgs ==
    /\ stage = "start"
    /\ stage' = "checks"
    /\ args' = enable_all(args)
    /\ UNCHANGED <<fs, disk, pipeline_vars, detector_vars, classifier_vars,
                   cache_vars, mover_vars, status, executed, start_files,
                   writer_vars>>

Checks ==
    /\ stage = "checks"
    /\ IF missing_json(args, disk) \/ missing_processed_json(args, disk)
       THEN Exit(1)
       ELSE stage' = "detect" /\ UNCHANGED status
    /\ UNCHANGED <<fs, disk, pipeline_vars, detector_vars, classifier_vars,
                   cache_vars, mover_vars, args, executed, start_files,
                   writer_vars>>

save_results(d, output_path, results) ==
    save_rename(save_dump(save_open(d, output_path), output_path, results),
                output_path)

(* The loop of process_unprocessed_files, with what the model does on the *)
(* images of each content.                                                 *)
RECURSIVE detect_loop(_, _, _, _)
detect_loop(st, unprocessed, models, k) ==
    IF k > Len(unprocessed) \/ st.raised # "" THEN st
    ELSE LET file_path == unprocessed[k]
             result == detect_objects(st.disk, main_cache_file, file_path,
                                      models[generate_cache_key(file_path)])
         IN  IF ~exists(file_path)
             THEN detect_loop(st, unprocessed, models, k + 1)
             ELSE IF result.raised # ""
             THEN [st EXCEPT !.raised = result.raised, !.disk = result.disk]
             ELSE detect_loop([st EXCEPT !.disk = result.disk,
                                         !.hash_to_data =
                                             update_entry(@, file_path, result)],
                              unprocessed, models, k + 1)

process_unprocessed_files(unprocessed, h2d, d, models) ==
    LET st == detect_loop([disk |-> d, hash_to_data |-> h2d, raised |-> ""],
                          unprocessed, models, 1)
    IN  IF st.raised # "" THEN st
        ELSE [st EXCEPT !.disk = save_results(st.disk, pkl_file, st.hash_to_data)]

(* "if args.process_images": the detection stage, from the scan to the    *)
(* saved results; an exception ends the program.                           *)
StageDetect ==
    /\ stage = "detect"
    /\ IF "process_images" \notin args
       THEN stage' = "convert" /\ UNCHANGED <<disk, status, executed>>
       ELSE \E files \in get_image_files : \E models \in [Hashes -> ModelResults] :
              LET r == get_unprocessed_files(files, load_results(disk, pkl_file))
                  st == process_unprocessed_files(r.unprocessed_files,
                                                  r.hash_to_data, disk, models)
              IN  /\ Ran("detect", TRUE)
                  /\ IF r.raised # ""
                     THEN Exit(1) /\ UNCHANGED disk
                     ELSE /\ disk' = st.disk
                          /\ IF st.raised # ""
                             THEN Exit(1)
                             ELSE stage' = "convert" /\ UNCHANGED status
    /\ UNCHANGED <<fs, pipeline_vars, detector_vars, classifier_vars,
                   cache_vars, mover_vars, args, start_files,
                   writer_vars>>

(* PKLToJSONConverter.convert_to_json: a results file that does not load  *)
(* is reported and no JSON file is written.                                *)
convert_to_json(d) ==
    IF FileOf(d, pkl_file).kind = "pickle"
    THEN WriteFile(d, json_file, Json(FileOf(d, pkl_file).obj))
    ELSE d

(* "if args.pkltojson" *)
StageConvert ==
    /\ stage = "convert"
    /\ IF "pkltojson" \notin args
       THEN stage' = "classify" /\ UNCHANGED <<disk, status, executed>>
       ELSE IF missing_pkl(disk)
       THEN Exit(1) /\ UNCHANGED <<disk, executed>>
       ELSE /\ Ran("convert", pkl_file \in DOMAIN disk)
            /\ disk' = convert_to_json(disk)
            /\ stage' = "classify"
            /\ UNCHANGED status
    /\ UNCHANGED <<fs, pipeline_vars, detector_vars, classifier_vars,
                   cache_vars, mover_vars, args, start_files,
                   writer_vars>>

(* The items of the mapping read from the JSON file, in the order order. *)
items_of(obj, order) ==
    [k \in DOMAIN order |->
        [hash |-> order[k], files |-> obj[order[k]].files,
         detections |-> obj[order[k]].detections]]

(* "if args.process_json": a fresh DetectionProcessor makes one pass over *)
(* the JSON file and its result is written to the processed file; a JSON  *)
(* file that is not there ends the program in read_json.                   *)
StageClassify ==
    /\ stage = "classify"
    /\ IF "process_json" \notin args
       THEN /\ stage' = "organize"
            /\ UNCHANGED <<disk, status, executed, classifier_vars>>
       ELSE IF json_file \notin DOMAIN disk
       THEN /\ Ran("classify", json_file \in DOMAIN disk)
            /\ Exit(1)
            /\ UNCHANGED <<disk, classifier_vars>>
       ELSE \E order \in ListsOf(DOMAIN disk[json_file].obj) :
              LET input == items_of(disk[json_file].obj, order)
              IN  \E picks \in [1..Len(input) -> Labels \cup {"others"}] :
                    /\ \A k \in 1..Len(input) :
                         picks[k] \in classifications(input[k].detections)
                    /\ input_data' = input
                    /\ dp' = process_loop(FreshProcessor, input, picks, 1)
                    /\ passes' = 1
                    /\ disk' = WriteFile(disk, processed_json_file,
                                         Json(returned(dp')))
                    /\ Ran("classify", json_file \in DOMAIN disk)
                    /\ stage' = "organize"
                    /\ UNCHANGED status
    /\ UNCHANGED <<fs, pipeline_vars, detector_vars, cache_vars, mover_vars,
                   args, start_files,
                   writer_vars>>

(* "if args.move_files": the files of the records of the processed file   *)
(* are moved or copied into the classification folders.                    *)
StageOrganize ==
    /\ stage = "organize"
    /\ IF "move_files" \notin args
       THEN /\ stage' = "archive"
            /\ UNCHANGED <<fs, status, executed, mover_vars>>
       ELSE IF processed_json_file \notin DOMAIN disk
       THEN /\ Ran("organize", processed_json_file \in DOMAIN disk)
            /\ Exit(1)
            /\ UNCHANGED <<fs, mover_vars>>
       ELSE LET items == disk[processed_json_file].obj.results
                o == process_and_move_or_copy(items, fs, dest, operation)
            IN  /\ processed_json' = items
                /\ fs' = o.fs
                /\ dest' = o.dest
                /\ summary' = o.results
                /\ transferred' = o.transferred
                /\ mover_calls' = mover_calls + 1
                /\ Ran("organize", processed_json_file \in DOMAIN disk)
                /\ stage' = "archive"
                /\ UNCHANGED <<status, operation>>
    /\ UNCHANGED <<disk, pipeline_vars, detector_vars, classifier_vars,
                   cache_vars, args, start_files,
                   writer_vars>>

(* The files of the results directory: the archive lies outside of it. *)
results_dir(d) == [n \in DOMAIN d \ {zip_file} |-> d[n]]

(* "if args.zip_process": the image directory and the results directory  *)
(* are written to the archive.  The results directory exists (main makes  *)
(* it), so the check that there is something to zip passes.                *)
StageArchive ==
    /\ stage = "archive"
    /\ IF "zip_process" \notin args
       THEN UNCHANGED <<disk, executed>>
       ELSE /\ Ran("archive", TRUE)
            /\ disk' = WriteFile(disk, zip_file,
                                 Zip([images |-> fs, results |-> results_dir(disk),
                                      folders |-> dest]))
    /\ stage' = "cleanup"
    /\ UNCHANGED <<fs, pipeline_vars, detector_vars, classifier_vars,
                   cache_vars, mover_vars, args, status, start_files,
                   writer_vars>>

(* "if args.delete_files": the results directory is deleted, with the     *)
(* classification folders in it; then main returns.                        *)
StageCleanup ==
    /\ stage = "cleanup"
    /\ IF "delete_files" \notin args
       THEN UNCHANGED <<disk, dest, executed>>
       ELSE /\ Ran("cleanup", TRUE)
            /\ disk' = [n \in DOMAIN disk \cap {zip_file} |-> disk[n]]
            /\ dest' = EmptyDict
    /\ Exit(0)
    /\ UNCHANGED <<fs, pipeline_vars, detector_vars, classifier_vars,
                   cache_vars, processed_json, operation, summary,
                   transferred, mover_calls, args, start_files,
                   writer_vars>>

(* What an earlier run on an empty image directory leaves in a file. *)
LeftOver(name) ==
    IF name = pkl_file THEN Pickle(EmptyDict)
    ELSE IF name = json_file THEN Json(EmptyDict)
    ELSE Json(returned(FreshProcessor))

(* The program is started with some flags on an image directory and a     *)
(* results directory that holds some of the files of an earlier run.       *)
InitMainRun ==
    /\ fs \in Directories
    /\ start_files \in SUBSET {pkl_file, json_file, processed_json_file}
    /\ disk = [n \in start_files |-> LeftOver(n)]
    /\ InitPipeline
    /\ InitDetector
    /\ InitClassifier
    /\ InitCache
    /\ InitWriters
    /\ InitMover
    /\ args \in SUBSET Flags
    /\ stage = "start"
    /\ status = -1
    /\ executed = <<>>

NextMain ==
    \/ ParseArgs
    \/ Checks
    \/ StageDetect
    \/ StageConvert
    \/ StageClassify
    \/ StageOrganize
    \/ StageArchive
    \/ StageCleanup

SpecMain == InitMainRun /\ [][NextMain]_vars

(* The states an earlier run of the detection stage can have saved: an    *)
(* entry per hash, with the paths its content was found at, which may     *)
(* since hold other bytes or nothing.                                      *)
PersistedStates ==
    UNION {[S -> [files : FileLists, detections : ModelOutputs]] :
               S \in SUBSET Hashes}

(* The detect, convert, classify and organize stages are run in one go on *)
(* a results directory that holds the state of an earlier detection run   *)
(* and the JSON files of a run before that.                                *)
InitRerun ==
    /\ fs \in Directories
    /\ start_files = {pkl_file, json_file, processed_json_file}
    /\ \E state \in PersistedStates :
         disk = [n \in start_files |->
                    IF n = pkl_file THEN Pickle(state) ELSE LeftOver(n)]
    /\ InitPipeline
    /\ InitDetector
    /\ InitClassifier
    /\ InitCache
    /\ InitWriters
    /\ processed_json = <<>>
    /\ operation \in {"move", "copy"}
    /\ dest = EmptyDict
    /\ summary = EmptyDict
    /\ transferred = EmptyDict
    /\ mover_calls = 0
    /\ args = {"process_images", "pkltojson", "process_json", "move_files"}
    /\ stage = "start"
    /\ status = -1
    /\ executed = <<>>

SpecRerun == InitRerun /\ [][NextMain]_vars

----------------------------------------------------------------------------
(* Properties of the detection stage. *)

Running == pc \in {"reconciled", "save_dump", "save_rename", "done"}

JustReconciled == pc = "reconciled" /\ processed = 0

Saved == FileOf(disk, pkl_file)

ScannedWith(h) == {p \in DOMAIN fs : generate_cache_key(p) = h}

(* Two persisted states are the same: the same hashes, the same files as  *)
(* sets, the same detection sequences.                                     *)
SameState(a, b) ==
    /\ DOMAIN a = DOMAIN b
    /\ \A h \in DOMAIN a :
         /\ Range(a[h].files) = Range(b[h].files)
         /\ a[h].detections = b[h].detections

(* C1: a run of the detection stage that follows a completed run on an    *)
(* unchanged directory calls the model zero times and saves a state equal *)
(* to the one the first run saved (which is the one it loaded).            *)
C1_Idempotent ==
    (pc = "done" /\ rerun) =>
        /\ invoked = <<>>
        /\ Saved.kind = "pickle"
        /\ SameState(loaded_results, Saved.obj)

(* A second run has completed on a directory that holds two files with    *)
(* the same bytes and an image in which the model detected nothing.        *)
C1_Witness ==
    /\ pc = "done"
    /\ rerun
    /\ \E p, q \in DOMAIN fs : p # q /\ fs[p] = fs[q]
    /\ \E p \in DOMAIN fs : Saved.obj[generate_cache_key(p)].detections = <<>>
    /\ \E p \in DOMAIN fs : Saved.obj[generate_cache_key(p)].detections # <<>>

RenameCase(h, f) ==
    /\ h \in DOMAIN loaded_results
    /\ Len(loaded_results[h].files) = 1
    /\ ~exists(loaded_results[h].files[1])
    /\ ScannedWith(h) = {f}

(* C2: rename tolerance.  When the only recorded file of a loaded hash h  *)
(* is gone and exactly one scanned file f has hash h, then from the end of *)
(* reconciliation to the end of the run the files of h are exactly [f], f *)
(* does not require detection, the model is not called on h and the       *)
(* detections of h are the loaded ones.                                    *)
C2_RenameTolerance ==
    Running =>
        \A h \in DOMAIN loaded_results : \A f \in DOMAIN fs :
            RenameCase(h, f) =>
                /\ hash_to_data[h].files = <<f>>
                /\ ~InList(f, unprocessed_files)
                /\ ~InList(h, invoked)
                /\ hash_to_data[h].detections = loaded_results[h].detections

(* A renamed image with detections has been reconciled while another,     *)
(* new image was detected in the same run.                                 *)
C2_Witness ==
    /\ pc = "done"
    /\ invoked # <<>>
    /\ \E h \in DOMAIN loaded_results : \E f \in DOMAIN fs :
         /\ RenameCase(h, f)
         /\ loaded_results[h].detections # <<>>

CopyCase(h, f) ==
    /\ h \in DOMAIN loaded_results
    /\ any_exists(loaded_results[h].files)
    /\ f \in ScannedWith(h)
    /\ ~InList(f, loaded_results[h].files)

NoRepeats(s) == \A a, b \in DOMAIN s : a # b => s[a] # s[b]

(* C3: copy detection.  When a recorded file of a loaded hash h exists    *)
(* and the scan holds a file f with hash h that is not recorded, then     *)
(* after reconciliation the files of h hold every recorded path and f, no *)
(* path twice, one more path for each scanned file that was not recorded  *)
(* (exactly one more when f is the only such file), and f does not        *)
(* require detection.                                                      *)
C3_CopyDetection ==
    Running =>
        \A h \in DOMAIN loaded_results : \A f \in DOMAIN fs :
            CopyCase(h, f) =>
                /\ Range(loaded_results[h].files) \subseteq Range(hash_to_data[h].files)
                /\ InList(f, hash_to_data[h].files)
                /\ NoRepeats(hash_to_data[h].files)
                /\ Len(hash_to_data[h].files) =
                     Len(loaded_results[h].files)
                     + Cardinality(ScannedWith(h) \ Range(loaded_results[h].files))
                /\ (ScannedWith(h) \ Range(loaded_results[h].files) = {f}
                      => Len(hash_to_data[h].files) = Len(loaded_results[h].files) + 1)
                /\ ~InList(f, unprocessed_files)

(* One copy of a recorded image that still exists has been reconciled. *)
C3_Witness ==
    /\ JustReconciled
    /\ \E h \in DOMAIN loaded_results : \E f \in DOMAIN fs :
         /\ CopyCase(h, f)
         /\ ScannedWith(h) \ Range(loaded_results[h].files) = {f}
         /\ Len(hash_to_data[h].files) = 2

Unseen == {p \in DOMAIN fs : generate_cache_key(p) \notin DOMAIN loaded_results}

(* C4 as stated: the files that require detection are exactly the scanned *)
(* files whose hash was not a key of the loaded state.                     *)
C4_UnprocessedAreAllUnseen ==
    JustReconciled => Range(unprocessed_files) = Unseen

(* C4 as amended: the list holds no file twice, only scanned files whose  *)
(* hash was not loaded, and exactly one file of each such hash; the other *)
(* scanned files of that hash are recorded in the files of its entry.      *)
C4_OnePerUnseenHash ==
    JustReconciled =>
        /\ NoRepeats(unprocessed_files)
        /\ Range(unprocessed_files) \subseteq Unseen
        /\ \A p \in Unseen :
             /\ Cardinality(Range(unprocessed_files) \cap ScannedWith(generate_cache_key(p))) = 1
             /\ InList(p, hash_to_data[generate_cache_key(p)].files)

(* Two scanned files share an unseen hash and one of them is listed,      *)
(* beside a file with a known hash that is not.                            *)
C4_Witness ==
    /\ JustReconciled
    /\ \E p, q \in Unseen :
         /\ p # q
         /\ fs[p] = fs[q]
         /\ InList(p, unprocessed_files)
         /\ ~InList(q, unprocessed_files)
    /\ DOMAIN fs # Unseen

ValidPersistedState(file) ==
    /\ file.kind \in {"pickle", "missing"}
    /\ \A h \in DOMAIN file.obj :
         {"files", "detections"} \subseteq DOMAIN file.obj[h]

(* C5: after an interruption that follows a cache set and precedes the    *)
(* final save, the results file is a valid persisted state, and the run   *)
(* that loads it next raises nothing.                                      *)
C5_InterruptLeavesValidState ==
    /\ InterruptedAfterSet => ValidPersistedState(Saved)
    /\ after_interrupt => exit \notin {"KeyError", "UnpicklingError"}

InSave == {"save_dump", "save_rename", "done"}

(* C9: from the entry of save_results on, and after an interruption at    *)
(* any point inside it, the target file is the file as save_results found *)
(* it, until the rename, and the complete new state after the rename;     *)
(* save_results never leaves it truncated.                                 *)
C9_AtomicSave ==
    LET at == IF pc = "idle" /\ exit = "interrupted" THEN crashedAt ELSE pc
    IN  at \in InSave =>
            /\ at \in {"save_dump", "save_rename"} => Saved = save_old
            /\ at = "done" => Saved = Pickle(save_new)
            /\ save_old.kind # "partial" => Saved.kind # "partial"

(* The process was killed after the temporary file was written and before *)
(* the rename, and the original results, which differ from the new ones,  *)
(* are still in place.                                                     *)
C9_Witness ==
    /\ pc = "idle"
    /\ exit = "interrupted"
    /\ crashedAt = "save_rename"
    /\ FileOf(disk, temp_file(pkl_file)) = Pickle(save_new)
    /\ save_old.kind = "pickle"
    /\ save_old # Pickle(save_new)
    /\ Saved = save_old

(* C11: a store that is missing or corrupt loads as the empty mapping and *)
(* raises nothing, through load_results and through _load_cache alike; no *)
(* run ends on an unpickling error.                                        *)
C11_CorruptLoadsAsEmpty ==
    /\ Saved.kind # "pickle" =>
         /\ load_results(disk, pkl_file) = EmptyDict
         /\ load_cache(disk, pkl_file) = [raised |-> "", cache |-> EmptyDict]
    /\ exit # "UnpicklingError"

(* C16: after reconciliation the files of every hash that the scan        *)
(* observed hold only paths that exist, whether none or some of the       *)
(* recorded paths had vanished.                                            *)
C16_NoStalePathAfterScan ==
    JustReconciled =>
        \A p \in DOMAIN fs :
            \A k \in DOMAIN hash_to_data[generate_cache_key(p)].files :
                exists(hash_to_data[generate_cache_key(p)].files[k])

(* The files of a loaded entry are all gone and the scan holds no file    *)
(* with its content.                                                       *)
AllStale(h) ==
    /\ ~any_exists(loaded_results[h].files)
    /\ ScannedWith(h) = {}

SameEntry(a, b) ==
    /\ Range(a.files) = Range(b.files)
    /\ Len(a.files) = Len(b.files)
    /\ a.detections = b.detections

(* C20: every hash of the loaded state is a key of the mapping during the *)
(* run and of the state the run saves; an entry whose recorded files are  *)
(* all gone and whose content the scan does not hold keeps its files (as  *)
(* a set, and their number) and its detections.                            *)
C20_NeverRemovesEntry ==
    Running =>
        \A h \in DOMAIN loaded_results :
            /\ h \in DOMAIN hash_to_data
            /\ AllStale(h) => SameEntry(hash_to_data[h], loaded_results[h])
            /\ pc = "done" =>
                 /\ Saved.kind = "pickle"
                 /\ h \in DOMAIN Saved.obj
                 /\ AllStale(h) => SameEntry(Saved.obj[h], loaded_results[h])

(* A run that detected a new image has saved, and the state still holds   *)
(* an entry with detections whose only file was deleted.                   *)
C20_Witness ==
    /\ pc = "done"
    /\ invoked # <<>>
    /\ \E h \in DOMAIN loaded_results :
         /\ AllStale(h)
         /\ loaded_results[h].detections # <<>>
         /\ h \in DOMAIN Saved.obj

(* C17: over runs that each load the state the previous run saved (no run *)
(* is killed), with images written and deleted between them: once a      *)
(* completed run has saved non-empty detections for a hash, no later run *)
(* calls the model on that hash, and the mapping of every later run and   *)
(* the state it saves hold those detections for it.                        *)
C17_DetectionsNeverChange ==
    interrupts = 0 =>
        \A h \in DOMAIN settled :
            /\ ~InList(h, invoked)
            /\ Running =>
                 /\ h \in DOMAIN hash_to_data
                 /\ hash_to_data[h].detections = settled[h]
            /\ (pc = "done" \/ (pc = "idle" /\ exit = "ok")) =>
                 /\ Saved.kind = "pickle"
                 /\ h \in DOMAIN Saved.obj
                 /\ Saved.obj[h].detections = settled[h]

(* A later run has saved after it detected a new image and found the     *)
(* image of a hash with saved detections at another path.                  *)
C17_Witness ==
    /\ interrupts = 0
    /\ pc = "done"
    /\ invoked # <<>>
    /\ \E h \in DOMAIN settled :
         /\ Range(loaded_results[h].files) \cap Range(Saved.obj[h].files) = {}
         /\ Saved.obj[h].detections = settled[h]

(* C21: from the end of reconciliation to the end of the run, every       *)
(* scanned file is in the files of the entry of its hash; the state the   *)
(* run saves lists it there too, and every entry of it whose hash was not *)
(* loaded holds the detections that detect_objects returned for the hash. *)
C21_ScanListedAndDetected ==
    /\ Running =>
         \A p \in DOMAIN fs :
             /\ generate_cache_key(p) \in DOMAIN hash_to_data
             /\ InList(p, hash_to_data[generate_cache_key(p)].files)
    /\ pc = "done" =>
         /\ Saved.kind = "pickle"
         /\ \A p \in DOMAIN fs :
              /\ generate_cache_key(p) \in DOMAIN Saved.obj
              /\ InList(p, Saved.obj[generate_cache_key(p)].files)
         /\ \A h \in DOMAIN Saved.obj \ DOMAIN loaded_results :
              /\ h \in DOMAIN detected
              /\ Saved.obj[h].detections = detected[h]

(* A run has saved after it found two files of one unseen content, in    *)
(* which the model detected something, beside a file of a loaded hash at  *)
(* a path that was not recorded.                                           *)
C21_Witness ==
    /\ pc = "done"
    /\ \E p, q \in Unseen :
         /\ p # q
         /\ fs[p] = fs[q]
         /\ detected[generate_cache_key(p)] # <<>>
    /\ \E p \in DOMAIN fs \ Unseen :
         ~InList(p, loaded_results[generate_cache_key(p)].files)

----------------------------------------------------------------------------
(* Properties of the detector. *)

Cache == load_cache(disk, default_cache_file).cache

(* C6: while the model has not failed it is called at most once per hash; *)
(* a call that calls the model is a miss that stores what the model       *)
(* returned under the hash; a hit calls no model and returns exactly what *)
(* the first miss of the hash stored, an empty list included.              *)
C6_OncePerHash ==
    /\ ~model_failed => \A h \in DOMAIN cache_calls : cache_calls[h] <= 1
    /\ \A h \in DOMAIN cache_first :
         /\ h \in DOMAIN Cache
         /\ Cache[h] = [data |-> cache_first[h].detections]
    /\ (ret.invoked /\ ret.raised = "") =>
         /\ ~ret.hit
         /\ Cache[ret.hash] = [data |-> ret.detections]
    /\ ret.hit =>
         /\ ~ret.invoked
         /\ ret.hash \in DOMAIN cache_first
         /\ ret.detections = cache_first[ret.hash].detections
    /\ (ret.path # 0 /\ ~model_failed) => (ret.hit <=> ~ret.invoked)

(* A file is a hit on an empty list that the miss of a file at another    *)
(* path stored, and the model never failed.                                *)
C6_Witness ==
    /\ ~model_failed
    /\ ret.hit
    /\ ret.detections = <<>>
    /\ ret.path # cache_first[ret.hash].path
    /\ Cardinality(DOMAIN cache_first) = MaxContents

(* C10: a call in which the model raises ends with that error and leaves  *)
(* the cache file as it was, with no entry for the hash; the next call on *)
(* that content misses and calls the model.                                *)
C10_FailureNotCached ==
    /\ ret.raised = "ModelError" =>
         /\ ret.invoked
         /\ ~ret.cache_changed
         /\ ret.hash \notin DOMAIN Cache
    /\ \A h \in last_failed : h \notin DOMAIN Cache
    /\ ret.after_failure => (ret.invoked /\ ~ret.hit)

(* The model failed on an image, and the next call on that content called *)
(* the model again and stored its result.                                  *)
C10_Witness ==
    /\ ret.after_failure
    /\ ret.invoked
    /\ ret.raised = ""
    /\ Cache[ret.hash] = [data |-> ret.detections]

----------------------------------------------------------------------------
(* Properties of the classification pass. *)

(* The entry of the input that record r of the results was made from:    *)
(* every pass appends one record per entry, in the order of the input.     *)
EntryOf(r) == input_data[((r - 1) % Len(input_data)) + 1]

Occurrences(detections, cls) ==
    Cardinality({j \in DOMAIN detections : detections[j].Class = cls})

(* C7: person priority.  Every entry whose detections hold a record of    *)
(* class "person" is classified "person", whatever the other classes and  *)
(* their counts.                                                           *)
C7_PersonPriority ==
    \A r \in DOMAIN dp.results :
        person_found(EntryOf(r).detections) =>
            dp.results[r].classification = "person"

(* An entry with one person and two cars was classified "person". *)
C7_Witness ==
    \E r \in DOMAIN dp.results :
        /\ Occurrences(EntryOf(r).detections, "person") = 1
        /\ Occurrences(EntryOf(r).detections, "car") = 2
        /\ dp.results[r].classification = "person"

(* C8: an entry without a "person" record is classified "others" exactly  *)
(* when it has no detections, and otherwise as a class of its detections  *)
(* that no other class of them outnumbers.                                 *)
C8_MostCommonOrOthers ==
    \A r \in DOMAIN dp.results :
        LET detections == EntryOf(r).detections
            cls == dp.results[r].classification
        IN  ~person_found(detections) =>
                /\ cls = "others" <=> detections = <<>>
                /\ detections # <<>> =>
                     /\ Occurrences(detections, cls) >= 1
                     /\ \A other \in Labels :
                          Occurrences(detections, other) <= Occurrences(detections, cls)

(* A tie of one car and one dog was classified "dog", and in the same     *)
(* pass two cars and a dog were classified "car".                          *)
C8_Witness ==
    /\ \E r \in DOMAIN dp.results :
         /\ EntryOf(r).detections = <<[Class |-> "car"], [Class |-> "dog"]>>
         /\ dp.results[r].classification = "dog"
    /\ \E r \in DOMAIN dp.results :
         /\ Occurrences(EntryOf(r).detections, "car") = 2
         /\ Occurrences(EntryOf(r).detections, "dog") = 1
         /\ dp.results[r].classification = "car"

(* The hashes of the input that share a file path with another hash of it. *)
SharedPathHashes ==
    {input_data[a].hash : a \in
        {a \in DOMAIN input_data :
            \E b \in DOMAIN input_data :
                /\ input_data[b].hash # input_data[a].hash
                /\ Range(input_data[a].files) \cap Range(input_data[b].files) # {}}}

(* C18: after one pass of a fresh processor the duplicates are exactly    *)
(* the hashes that share a file path with a different hash of the input.   *)
C18_DuplicatesAreSharedPaths ==
    passes = 1 => returned(dp).metadata.duplicates = SharedPathHashes

(* One pass flagged two hashes that share one of their two paths each. *)
C18_Witness ==
    /\ passes = 1
    /\ Cardinality(returned(dp).metadata.duplicates) = 2
    /\ \A k \in DOMAIN input_data : Len(input_data[k].files) = 2
    /\ \E p \in Paths : \A k \in DOMAIN input_data : ~InList(p, input_data[k].files)

(* C19: a second pass of the same processor on the same input returns one *)
(* record per hash of the input and the metadata of a single pass of a    *)
(* fresh processor: the files of the input and the hashes that share a    *)
(* path.                                                                   *)
C19_SecondPassRecomputes ==
    passes = 2 =>
        /\ Len(returned(dp).results) = Len(input_data)
        /\ returned(dp).metadata.duplicates = SharedPathHashes
        /\ returned(dp).metadata.all_files =
             UNION {Range(input_data[k].files) : k \in DOMAIN input_data}
        /\ returned(dp).metadata.folder_names =
             {returned(dp).results[r].classification : r \in 1..Len(input_data)}

----------------------------------------------------------------------------
(* Properties of the cache. *)

(* What get must return for a key: the stored dict that holds the data of *)
(* the most recent set of the key under 'data', or None.                   *)
LastSet(key) ==
    IF key \in DOMAIN cache_last
    THEN [data |-> cache_last[key].data]
    ELSE NoValue

(* C14: after any sequence of set calls of one process, get of a key      *)
(* returns the data of the most recent set of that key, get of a key that *)
(* was never set returns absent, and so a set leaves every other key as   *)
(* it was; the last get call returned just that.                           *)
C14_GetReturnsLastSet ==
    /\ \A key \in Hashes :
         /\ cache_get(disk, default_cache_file, key).raised = ""
         /\ cache_get(disk, default_cache_file, key).value = LastSet(key)
    /\ cache_ret.op = "get" => cache_ret.value = LastSet(cache_ret.key)

(* A get returned the data of a set that overwrote other data of its key, *)
(* while another key holds data of its own and was set before.             *)
C14_Witness ==
    /\ cache_ret.op = "get"
    /\ cache_ret.key \in DOMAIN cache_last
    /\ cache_last[cache_ret.key].overwrote
    /\ cache_ret.value = [data |-> <<>>]
    /\ \E other \in DOMAIN cache_last :
         /\ other # cache_ret.key
         /\ cache_last[other].data # <<>>

----------------------------------------------------------------------------
(* Properties of the organizer. *)

(* C15: the summary that process_and_move_or_copy returns lists, for      *)
(* every label of the records, exactly the files that the call has       *)
(* transferred into the folder of that label, also when several records   *)
(* carry the label.                                                        *)
C15_SummaryListsAllTransfers ==
    mover_calls = 1 =>
        \A k \in DOMAIN processed_json :
            LET label == processed_json[k].classification
            IN  /\ label \in DOMAIN summary
                /\ Range(summary[label].files) = Range(transferred[label])

----------------------------------------------------------------------------
(* Properties of main. *)

DependentStages == {"convert", "classify", "organize"}

StageFlag ==
    [convert |-> "pkltojson", classify |-> "process_json",
     organize |-> "move_files"]

StageInput ==
    [convert |-> pkl_file, classify |-> json_file,
     organize |-> processed_json_file]

Executed(s) == \E k \in DOMAIN executed : executed[k].stage = s

(* C12: a convert, classify or organize stage never executes without its  *)
(* input file; a run in which a requested stage of these did not execute  *)
(* ended with status 1; and when the classify or the organize stage is    *)
(* requested and its input file is not there at the start, the run ends   *)
(* with status 1 and no stage at all has executed.                         *)
C12_DependencyChecks ==
    \A s \in DependentStages :
        /\ \A k \in DOMAIN executed :
             executed[k].stage = s => executed[k].input
        /\ (stage = "exit" /\ StageFlag[s] \in args /\ ~Executed(s)) => status = 1
        /\ (/\ stage = "exit"
            /\ s # "convert"
            /\ StageFlag[s] \in args
            /\ StageInput[s] \notin start_files)
           => (status = 1 /\ executed = <<>>)

(* The convert stage found no results file and the program ended with     *)
(* status 1, after the checks of the classify and organize stages, which  *)
(* were requested too, had found their files.                              *)
C12_Witness ==
    /\ stage = "exit"
    /\ status = 1
    /\ executed = <<>>
    /\ {"pkltojson", "process_json", "move_files"} \subseteq args
    /\ "process_images" \notin args
    /\ start_files = {json_file, processed_json_file}

(* C13: a run with --all that started on a results directory without     *)
(* files of an earlier run ends with status 0 after the stages detect,    *)
(* convert, classify, organize, archive and cleanup have executed in this *)
(* order, each with the file of the stage before it.                       *)
C13_AllStagesRunInOrder ==
    (stage = "exit" /\ "all" \in args /\ start_files = {}) =>
        /\ status = 0
        /\ executed = [k \in 1..6 |->
                          [stage |-> <<"detect", "convert", "classify",
                                       "organize", "archive", "cleanup">>[k],
                           input |-> TRUE]]

(* C22: after the detect, convert, classify and organize stages, every    *)
(* file that the organizer transferred lies in the folder named after the *)
(* classification of the record of the hash of its content.                *)
C22_FiledUnderCurrentContent ==
    (/\ mover_calls = 1
     /\ Len(executed) >= 4
     /\ [k \in 1..4 |-> executed[k].stage] =
            <<"detect", "convert", "classify", "organize">>)
    => \A label \in DOMAIN transferred :
           \A k \in DOMAIN transferred[label] :
               \E r \in DOMAIN processed_json :
                   /\ processed_json[r].hash = MD5(dest[transferred[label][k]])
                   /\ processed_json[r].classification = label

(* No path is listed in two records: every transfer has a source file of  *)
(* its own.                                                                *)
DistinctSources ==
    \A a, b \in DOMAIN processed_json :
        a # b => Range(processed_json[a].files) \cap Range(processed_json[b].files) = {}

(* C23: after a move or copy pass over distinct source files, no target   *)
(* path was used by two transfers, and each classification folder holds   *)
(* as many files as transfers were made into it.                           *)
C23_OneDestinationPerTransfer ==
    (mover_calls = 1 /\ DistinctSources) =>
        \A label \in DOMAIN transferred :
            /\ NoRepeats(transferred[label])
            /\ Cardinality({t \in DOMAIN dest : t[1] = label}) =
                 Len(transferred[label])

----------------------------------------------------------------------------
(* Properties of concurrent writers. *)

Quiescent == \A p \in Writers : ~MidSet(p)

Store == FileOf(disk, default_cache_file)

(* C24: as long as no set call has begun while a set call of another      *)
(* process was under way, that is the calls were made one after the       *)
(* other, the store holds, between the calls, every key that was set,     *)
(* with the data of its last set.  (That interleaved calls can lose a key *)
(* is the state C24_Witness.)                                              *)
C24_SequentialSetsKeepKeys ==
    (~overlapped /\ Quiescent) =>
        /\ \A p \in Writers : writers[p].pc # "raised"
        /\ cache_last # EmptyDict => Store.kind = "pickle"
        /\ \A key \in DOMAIN cache_last :
             /\ key \in DOMAIN Store.obj
             /\ Store.obj[key] = [data |-> cache_last[key].data]

(* A lost update: two processes have each completed a set call for their  *)
(* own key, the calls interleaved, none raised, and the store lacks one   *)
(* of the two keys.                                                        *)
C24_Witness ==
    /\ overlapped
    /\ \A p \in Writers : writers[p].pc = "idle"
    /\ {WriterKey(1), WriterKey(2)} \subseteq DOMAIN cache_last
    /\ Store.kind = "pickle"
    /\ \E key \in {WriterKey(1), WriterKey(2)} : key \notin DOMAIN Store.obj

====
